---- MODULE Spec2Model ----
(***************************************************************************)
(* Model of the aiproxy credential-brokering proxy.                        *)
(*                                                                         *)
(*   auth/gcp_credentials.py   GCPTokenManager        (variable tm)        *)
(*   auth/aws_credentials.py   AWSCredentialsManager  (variable cm)        *)
(*   services/gcp_gateway.py   GCPGatewayClient.validate_request           *)
(*   services/bedrock_client.py, main.py, proxyapp.py   the two /predict   *)
(*                                                                         *)
(* Callers are concurrent logical requests.  A caller runs the code of a   *)
(* handler atomically up to the next network round trip (identity-token    *)
(* refresh, trust-federation exchange, gateway POST, backend operation)    *)
(* and may be overtaken by other callers only while that round trip is in  *)
(* flight.  Time is in whole seconds.                                      *)
(*                                                                         *)
(*   Spec          direct callers of get_token / get_credentials /         *)
(*                 clear_cache, with the clock advancing                   *)
(*   SpecPredict   requests to /predict of main.py or of proxyapp.py       *)
(*   SpecValidity  the two validity tests on every cache state and time    *)
(*   SpecClient    direct callers of get_client of the two                 *)
(*                 BedrockClientManager classes                            *)
(*   SpecService   _determine_service on a set of operation names          *)
(*                                                                         *)
(* Two callers run concurrently.  The external collaborators (identity     *)
(* provider, exchange endpoint, policy gateway, backend) answer            *)
(* nondeterministically: success, failure, and for the identity provider   *)
(* also an empty token.                                                    *)
(***************************************************************************)
EXTENDS Integers, Sequences, FiniteSets, TLC

(* ------------------------------ bounds -------------------------------- *)
\* clock advances per run
MaxTicks == 3
\* identity-refresh calls per run
MaxUpstream == 2

(* ------------------------- program constants -------------------------- *)
\* Python's None, for the Optional[...] fields
None == -1
\* the empty string as a token value ('' is falsy like None)
EmptyToken == 0
\* gcp_credentials.py: self.refresh_buffer = 300 ; aws_credentials.py likewise
RefreshBuffer == 300
\* gcp_credentials.py: timedelta(seconds=3600)
TokenTTL == 3600
\* aws_credentials.py: self.session_duration = 3600
SessionDuration == 3600

\* the concurrent logical requests
Callers == {1, 2}
\* amounts by which the clock advances between steps
Jumps == {1, TokenTTL - RefreshBuffer - 1}

VARIABLES
  now,     \* the wall clock (datetime.now() / datetime.utcnow()), seconds
  ticks,   \* number of clock advances so far (bounded by MaxTicks)
  tm,      \* the GCPTokenManager instance: token_cache, token_expiry, credentials
  cm,      \* the AWSCredentialsManager instance
  ext,     \* calls made so far to the external collaborators
  req,     \* per caller: the handler it runs and where it is suspended
  app,     \* module-level state of the two applications
  hist     \* per manager: what became of its cache and handle so far

vars == <<now, ticks, tm, cm, ext, req, app, hist>>

(* ---------------------- Python values and objects --------------------- *)
\* bool(v) for an Optional[str]
Truthy(v) == v # None /\ v # EmptyToken

\* self._credentials / self._google_credentials is None
NoHandle == [id |-> 0, token |-> None]

\* identity_pool.Credentials(...): a new object, not yet refreshed (token None)
NewHandle(k) == [id |-> k, token |-> None]

\* credentials.refresh(Request()) returned on the object h: the object gets the
\* token; cur is what the manager's field holds now (the same object or not)
RefreshedHandle(cur, h, tok) == IF cur.id = h /\ h # 0 THEN [cur EXCEPT !.token = tok] ELSE cur

\* a get_token / _refresh_credentials that builds a handle on every miss
NeedsHandleAlways(handle) == TRUE

\* 'if not self._credentials' / 'if not self._google_credentials'
NeedsHandle(handle) == handle = NoHandle

\* self._credentials_cache is None
NoCreds == [none |-> TRUE]

(* --------------------------- operation names ------------------------- *)
\* strings the code inspects are sequences of characters
UpperCase == <<"A","B","C","D","E","F","G","H","I","J","K","L","M",
               "N","O","P","Q","R","S","T","U","V","W","X","Y","Z">>
LowerCase == <<"a","b","c","d","e","f","g","h","i","j","k","l","m",
               "n","o","p","q","r","s","t","u","v","w","x","y","z">>

\* c.isupper()
IsUpper(ch) == \E i \in 1..Len(UpperCase) : UpperCase[i] = ch

\* c.lower()
CharLower(ch) ==
  IF IsUpper(ch) THEN LowerCase[CHOOSE i \in 1..Len(UpperCase) : UpperCase[i] = ch] ELSE ch

\* operation.lower()
StrLower(str) == [i \in 1..Len(str) |-> CharLower(str[i])]

\* s.startswith(prefix)
StartsWith(str, prefix) ==
  /\ Len(prefix) <= Len(str)
  /\ SubSeq(str, 1, Len(prefix)) = prefix

\* s.lstrip('_')
RECURSIVE LStripUnderscore(_)
LStripUnderscore(str) ==
  IF str # <<>> /\ Head(str) = "_" THEN LStripUnderscore(Tail(str)) ELSE str

\* proxyapp.py lines 151-152: '_' + c.lower() for an upper-case c, else c.lower()
RECURSIVE SnakeJoin(_)
SnakeJoin(str) ==
  IF str = <<>> THEN <<>>
  ELSE (IF IsUpper(Head(str)) THEN <<"_", CharLower(Head(str))>> ELSE <<CharLower(Head(str))>>)
       \o SnakeJoin(Tail(str))

ToSnakeCase(str) == LStripUnderscore(SnakeJoin(str))

\* _determine_service without operation.lower()
DetermineServiceCaseSensitive(operation) ==
  IF \/ StartsWith(operation, <<"i","n","v","o","k","e">>)
     \/ StartsWith(operation, <<"s","t","r","e","a","m">>)
  THEN "bedrock-runtime"
  ELSE IF StartsWith(operation, <<"a","g","e","n","t">>)
       THEN "bedrock-agent"
       ELSE "bedrock"

\* _determine_service, the same in proxyapp.py and services/bedrock_client.py
DetermineService(operation) ==
  LET operation_lower == StrLower(operation)
  IN IF \/ StartsWith(operation_lower, <<"i","n","v","o","k","e">>)
        \/ StartsWith(operation_lower, <<"s","t","r","e","a","m">>)
     THEN "bedrock-runtime"
     ELSE IF StartsWith(operation_lower, <<"a","g","e","n","t">>)
          THEN "bedrock-agent"
          ELSE "bedrock"

\* the operation names requests carry: "InvokeModel", "InvalidOp"
Operations ==
  << <<"I","n","v","o","k","e","M","o","d","e","l">>,
     <<"I","n","v","a","l","i","d","O","p">> >>

\* the operation names _determine_service is given: those of Operations, then
\* "InvokeAgentSomething", "INVOKE", "StreamX", "sTREAMing", "AgentList",
\* "agent", "AGENTS", "ListAgents", "Agen", "Invok", "ReInvoke" and ""
OperationNames ==
  Operations \o
  << <<"I","n","v","o","k","e","A","g","e","n","t","S","o","m","e","t","h","i","n","g">>,
     <<"I","N","V","O","K","E">>,
     <<"S","t","r","e","a","m","X">>,
     <<"s","T","R","E","A","M","i","n","g">>,
     <<"A","g","e","n","t","L","i","s","t">>,
     <<"a","g","e","n","t">>,
     <<"A","G","E","N","T","S">>,
     <<"L","i","s","t","A","g","e","n","t","s">>,
     <<"A","g","e","n">>,
     <<"I","n","v","o","k">>,
     <<"R","e","I","n","v","o","k","e">>,
     <<>> >>

\* the methods getattr finds on the boto3 client of a service (those that
\* matter for Operations: invoke_model on bedrock-runtime)
ClientMethods(service) ==
  IF service = "bedrock-runtime"
  THEN { <<"i","n","v","o","k","e","_","m","o","d","e","l">> }
  ELSE {}

\* the service keys of Config.BEDROCK_SERVICES / self.bedrock_services
Services == {"bedrock-runtime", "bedrock-agent", "bedrock"}

\* BedrockClientManager._instances = {}: no client under any key (0)
NoClients == [s \in Services |-> 0]

\* a get_client that builds a client on every call
ProxyGetClientRebuild(a, operation) ==
  [a EXCEPT !.instances[DetermineService(operation)] = a.built + 1, !.built = @ + 1]

\* proxyapp.py BedrockClientManager.get_client on the module state a: a client
\* (the built-th object boto3.client returned) is built and stored only if the
\* service key has none; the caller gets _instances[service] of the result
ProxyGetClient(a, operation) ==
  LET service == DetermineService(operation)
  IN IF a.instances[service] # 0
     THEN a
     ELSE [a EXCEPT !.instances[service] = a.built + 1, !.built = @ + 1]

(* --------------------------- GCPTokenManager -------------------------- *)
GCPTokenManagerInit == [token_cache |-> None, token_expiry |-> None, credentials |-> NoHandle]

\* _is_token_valid with the boundary included (<= for <)
IsTokenValidInclusive(self, t) ==
  IF ~Truthy(self.token_cache) \/ self.token_expiry = None
  THEN FALSE
  ELSE t <= self.token_expiry - RefreshBuffer

IsTokenValid(self, t) ==
  IF ~Truthy(self.token_cache) \/ self.token_expiry = None
  THEN FALSE
  ELSE t < self.token_expiry - RefreshBuffer

TmClearCache(self) ==
  [self EXCEPT !.token_cache = None, !.token_expiry = None, !.credentials = NoHandle]

\* lines 39-40: install the token of the handle the field holds now
TmInstall(self, t) ==
  [self EXCEPT !.token_cache = self.credentials.token, !.token_expiry = t + TokenTTL]

(* ------------------------ AWSCredentialsManager ----------------------- *)
AWSCredentialsManagerInit ==
  [credentials_cache |-> NoCreds, credentials_expiry |-> None, google_credentials |-> NoHandle]

\* _should_refresh_credentials that never trusts the cache
ShouldRefreshAlways(self, t) == TRUE

ShouldRefreshCredentials(self, t) ==
  IF self.credentials_cache = NoCreds \/ self.credentials_expiry = None
  THEN TRUE
  ELSE t >= self.credentials_expiry - RefreshBuffer

\* clear_cache that forgets to reset the expiry
CmClearCacheKeepsExpiry(self) ==
  [self EXCEPT !.credentials_cache = NoCreds, !.google_credentials = NoHandle]

CmClearCache(self) ==
  [self EXCEPT !.credentials_cache = NoCreds, !.credentials_expiry = None,
               !.google_credentials = NoHandle]

\* the answer of assume_role_with_web_identity to exchange call k at time t:
\* one credential triple and its Expiration, DurationSeconds after the call
StsResponse(k, t) ==
  [Credentials |-> [AccessKeyId |-> k, SecretAccessKey |-> k, SessionToken |-> k,
                    Expiration |-> [sec |-> t + SessionDuration, tzinfo |-> "UTC"]]]

\* lines 74-78: the cached dict
CmInstallCache(self, response) ==
  [self EXCEPT !.credentials_cache =
     [aws_access_key_id |-> response.Credentials.AccessKeyId,
      aws_secret_access_key |-> response.Credentials.SecretAccessKey,
      aws_session_token |-> response.Credentials.SessionToken]]

\* an install that leaves the expiry for a later step
CmInstallExpiryDeferred(self, response) == self

\* lines 81-84: strftime then strptime keeps the seconds and drops the tzinfo
CmInstallExpiry(self, response) ==
  [self EXCEPT !.credentials_expiry = response.Credentials.Expiration.sec]

(* ----------------------- exception-to-status glue --------------------- *)
\* gcp_gateway.py lines 41-49: validate_request catches every exception raised
\* in its try block, its own HTTPException included, and raises HTTPException(500)
ValidateRequestExcept(code) == 500

\* a status test that only rejects "denied"
IsApprovedLax(status) == status # "denied"

\* gcp_gateway.py line 33, main.py line 21, proxyapp.py line 104: the status test
IsApproved(status) == status = "approved"

\* main.py lines 37-41: predict catches every exception and raises HTTPException(500)
MainPredictExcept(code) == 500

\* proxyapp.py lines 113-117: predict catches every exception and raises HTTPException(500)
ProxyPredictExcept(code) == 500

(* ------------------------------ history ------------------------------ *)
\* Per manager: "clean" while clear_cache never ran on it (no refresh failed);
\* "failed" from a failed get_token / get_credentials (the except branch ran
\* clear_cache) until the next call of it starts; "used" otherwise.
HistInit == [tm |-> "clean", cm |-> "clean"]

\* a call of get_token / get_credentials starts
HistCall(s) == IF s = "failed" THEN "used" ELSE s

\* clear_cache is called from outside the except branches
HistClear(s) == IF s = "clean" THEN "used" ELSE s

(* ------------------------------ callers ------------------------------- *)
\* A caller with no handler running.  entry: the handler called; pc: the round
\* trip it is suspended in; h: the handle object its refresh runs on; n, m: the
\* number of the identity-refresh / exchange call it made (0: none); peers: the
\* refresh calls of other callers that were in flight when it found the cache
\* stale; op: the operation of a /predict request (an index of Operations);
\* verdict: the status the gateway answered; bearer, sts_token: the token sent to
\* the gateway / the exchange; backend: how far the request got with the backend
\* (lookup: get_client called, client: client obtained, called: operation
\* invoked); raised, code, tok, creds, answer: how the handler ended; service:
\* the service key _determine_service answered; client: the client object
\* get_client returned (0: none); posted: the POST to the gateway was sent.
IdleReq ==
  [entry |-> "none", pc |-> "idle", h |-> 0, n |-> 0, m |-> 0, peers |-> {},
   op |-> 0, verdict |-> "none", bearer |-> None, sts_token |-> None, backend |-> "none",
   raised |-> FALSE, code |-> 0, tok |-> None, creds |-> NoCreds, answer |-> FALSE,
   service |-> "none", client |-> 0, posted |-> FALSE]

NewReq(entry, op) == [IdleReq EXCEPT !.entry = entry, !.op = op]

\* the handler returns (code 200 for an HTTP handler) or raises HTTPException(code)
Return(r, code) == [r EXCEPT !.pc = "idle", !.h = 0, !.raised = FALSE, !.code = code]

Raise(r, code) == [r EXCEPT !.pc = "idle", !.h = 0, !.raised = TRUE, !.code = code]

\* refresh calls of the other callers in flight on the token manager
TmInFlight(c) == {req[d].n : d \in {x \in Callers \ {c} : req[x].pc = "tm_refresh"}}

\* gcp_gateway.py validate_request, after get_authorization_headers: the POST is
\* sent with the token get_token returned (tok) in the Bearer header (bearer);
\* an exception from get_token is re-raised as 500 by validate_request and
\* again by predict
ValidateAfterToken(r, raised, tok) ==
  IF raised THEN Raise(r, MainPredictExcept(ValidateRequestExcept(500)))
  ELSE [r EXCEPT !.pc = "gw_post", !.tok = tok, !.bearer = tok, !.posted = TRUE]

\* what the code does with the outcome of get_token
AfterGetToken(r, raised, tok) ==
  IF r.entry = "get_token"
  THEN IF raised THEN Raise(r, 500) ELSE [Return(r, 0) EXCEPT !.tok = tok]
  ELSE ValidateAfterToken(r, raised, tok)

\* get_token up to its first suspension: the cached token, or the handle is
\* built if absent and its refresh is called
GetTokenBegin(c, r) ==
  IF IsTokenValid(tm, now)
  THEN /\ req' = [req EXCEPT ![c] = AfterGetToken(r, FALSE, tm.token_cache)]
       /\ hist' = [hist EXCEPT !.tm = HistCall(@)]
       /\ UNCHANGED <<tm, ext>>
  ELSE \E built \in (IF NeedsHandle(tm.credentials) THEN BOOLEAN ELSE {TRUE}) :
         IF ~built
         THEN /\ tm' = TmClearCache(tm)
              /\ req' = [req EXCEPT ![c] = AfterGetToken(r, TRUE, None)]
              /\ hist' = [hist EXCEPT !.tm = "failed"]
              /\ UNCHANGED ext
         ELSE /\ ext.tm_refresh + ext.cm_refresh < MaxUpstream
              /\ hist' = [hist EXCEPT !.tm = HistCall(@)]
              /\ LET fresh == NeedsHandle(tm.credentials)
                     h == IF fresh THEN NewHandle(ext.tm_handles + 1) ELSE tm.credentials
                 IN /\ tm' = [tm EXCEPT !.credentials = h]
                    /\ ext' = [ext EXCEPT !.tm_refresh = @ + 1,
                                          !.tm_handles = IF fresh THEN @ + 1 ELSE @]
                    /\ req' = [req EXCEPT ![c] =
                                 [r EXCEPT !.pc = "tm_refresh", !.h = h.id,
                                           !.n = ext.tm_refresh + 1, !.peers = TmInFlight(c)]]

\* a direct call of GCPTokenManager.get_token.  The two managers share no
\* state: the direct callers of one run are all clients of the same manager
GetToken(c) ==
  /\ req[c].pc = "idle"
  /\ \A d \in Callers : req[d].entry \in {"none", "get_token"}
  /\ GetTokenBegin(c, NewReq("get_token", 0))
  /\ UNCHANGED <<now, ticks, cm, app>>

\* the identity provider answers the refresh of caller c: an error, a token, or
\* an empty token; then lines 39-48 run
TmRefreshReturn(c) ==
  /\ req[c].pc = "tm_refresh"
  /\ \E outcome \in {"token", "empty", "error"} :
       LET tok == IF outcome = "token" THEN req[c].n ELSE EmptyToken
           cur == RefreshedHandle(tm.credentials, req[c].h, tok)
           new == TmInstall([tm EXCEPT !.credentials = cur], now)
       IN IF outcome = "error" \/ cur = NoHandle
          THEN /\ tm' = TmClearCache(tm)
               /\ req' = [req EXCEPT ![c] = AfterGetToken(req[c], TRUE, None)]
               /\ hist' = [hist EXCEPT !.tm = "failed"]
          ELSE /\ tm' = new
               /\ req' = [req EXCEPT ![c] = AfterGetToken(req[c], FALSE, new.token_cache)]
               /\ UNCHANGED hist
  /\ UNCHANGED <<now, ticks, cm, ext, app>>

\* a call of GCPTokenManager.clear_cache
TmClearCacheCall ==
  /\ tm # TmClearCache(tm)
  /\ tm' = TmClearCache(tm)
  /\ hist' = [hist EXCEPT !.tm = HistClear(@)]
  /\ UNCHANGED <<now, ticks, cm, ext, req, app>>

(* ------------------- AWSCredentialsManager, callers ------------------- *)
\* refresh calls of the other callers in flight on the credentials manager
CmInFlight(c) ==
  {req[d].n : d \in {x \in Callers \ {c} : req[x].pc \in {"cm_refresh", "cm_sts"}}}

\* services/bedrock_client.py get_client lines 20-36 after get_credentials: an
\* HTTPException of get_credentials passes through; else the three keys are
\* read from the credential set (KeyError, no HTTP status, if absent), a client
\* is built, stored under the service key and returned
MainGetClient(r, raised, creds) ==
  LET g == [r EXCEPT !.service = DetermineService(OperationNames[r.op])]
  IN IF raised THEN Raise(g, 500)
     ELSE IF ~({"AccessKeyId", "SecretAccessKey", "SessionToken"} \subseteq DOMAIN creds)
          THEN Raise([g EXCEPT !.creds = creds], 0)
          ELSE [Return(g, 0) EXCEPT !.creds = creds, !.client = app.main_built + 1]

\* main.py predict lines 28-41 after get_client: the method is looked up under
\* operation.lower() and called; every exception leaves predict as 500
MainAfterCredentials(r, raised, creds) ==
  LET g == MainGetClient(r, raised, creds)
  IN IF g.raised THEN Raise(g, MainPredictExcept(g.code))
     ELSE IF StrLower(OperationNames[r.op]) \notin ClientMethods(g.service)
          THEN Raise([g EXCEPT !.backend = "client"], MainPredictExcept(500))
          ELSE [g EXCEPT !.pc = "op_call", !.backend = "called"]

\* get_credentials that swallows the exception and returns the (cleared) cache
AfterGetCredentialsSwallow(r, raised, creds) ==
  IF r.entry = "get_credentials"
  THEN [Return(r, 0) EXCEPT !.creds = creds]
  ELSE IF r.entry = "main_get_client"
       THEN MainGetClient(r, raised, creds)
       ELSE MainAfterCredentials(r, raised, creds)

\* what the code does with the outcome of get_credentials
AfterGetCredentials(r, raised, creds) ==
  IF r.entry = "get_credentials"
  THEN IF raised THEN Raise(r, 500) ELSE [Return(r, 0) EXCEPT !.creds = creds]
  ELSE IF r.entry = "main_get_client"
       THEN MainGetClient(r, raised, creds)
       ELSE MainAfterCredentials(r, raised, creds)

\* the module state of main.py after get_client (bedrock_client.py lines
\* 32-35): once the credential keys were read, a new client is built and stored
\* under the service key, whether the key had one or not
MainInstances(r, raised, creds) ==
  IF /\ r.entry \in {"main", "main_get_client"}
     /\ ~raised
     /\ {"AccessKeyId", "SecretAccessKey", "SessionToken"} \subseteq DOMAIN creds
  THEN [app EXCEPT !.main_instances[DetermineService(OperationNames[r.op])] =
                     app.main_built + 1,
                   !.main_built = @ + 1]
  ELSE app

\* get_credentials up to its first suspension
GetCredentialsBegin(c, r) ==
  IF ~ShouldRefreshCredentials(cm, now)
  THEN /\ req' = [req EXCEPT ![c] = AfterGetCredentials(r, FALSE, cm.credentials_cache)]
       /\ app' = MainInstances(r, FALSE, cm.credentials_cache)
       /\ hist' = [hist EXCEPT !.cm = HistCall(@)]
       /\ UNCHANGED <<cm, ext>>
  ELSE \E built \in (IF NeedsHandle(cm.google_credentials) THEN BOOLEAN ELSE {TRUE}) :
         IF ~built
         THEN /\ cm' = CmClearCache(CmClearCache(cm))
              /\ req' = [req EXCEPT ![c] = AfterGetCredentials(r, TRUE, NoCreds)]
              /\ hist' = [hist EXCEPT !.cm = "failed"]
              /\ UNCHANGED <<ext, app>>
         ELSE /\ ext.tm_refresh + ext.cm_refresh < MaxUpstream
              /\ hist' = [hist EXCEPT !.cm = HistCall(@)]
              /\ UNCHANGED app
              /\ LET fresh == NeedsHandle(cm.google_credentials)
                     h == IF fresh THEN NewHandle(ext.cm_handles + 1)
                          ELSE cm.google_credentials
                 IN /\ cm' = [cm EXCEPT !.google_credentials = h]
                    /\ ext' = [ext EXCEPT !.cm_refresh = @ + 1,
                                          !.cm_handles = IF fresh THEN @ + 1 ELSE @]
                    /\ req' = [req EXCEPT ![c] =
                                 [r EXCEPT !.pc = "cm_refresh", !.h = h.id,
                                           !.n = ext.cm_refresh + 1, !.peers = CmInFlight(c)]]

\* a direct call of AWSCredentialsManager.get_credentials
GetCredentials(c) ==
  /\ req[c].pc = "idle"
  /\ \A d \in Callers : req[d].entry \in {"none", "get_credentials"}
  /\ GetCredentialsBegin(c, NewReq("get_credentials", 0))
  /\ UNCHANGED <<now, ticks, tm>>

\* the identity provider answers the refresh of caller c; then lines 64-71 run:
\* the token of the handle the field holds now is read and, if boto3 accepts it
\* as WebIdentityToken (a non-empty string), the exchange is called
CmRefreshReturn(c) ==
  /\ req[c].pc = "cm_refresh"
  /\ \E outcome \in {"token", "empty", "error"} :
       LET tok == IF outcome = "token" THEN req[c].n ELSE EmptyToken
           cur == RefreshedHandle(cm.google_credentials, req[c].h, tok)
       IN IF outcome = "error" \/ cur = NoHandle \/ ~Truthy(cur.token)
          THEN /\ cm' = CmClearCache(CmClearCache(cm))
               /\ req' = [req EXCEPT ![c] = AfterGetCredentials(req[c], TRUE, NoCreds)]
               /\ hist' = [hist EXCEPT !.cm = "failed"]
               /\ UNCHANGED ext
          ELSE /\ cm' = [cm EXCEPT !.google_credentials = cur]
               /\ ext' = [ext EXCEPT !.sts = @ + 1]
               /\ UNCHANGED hist
               /\ req' = [req EXCEPT ![c] =
                            [@ EXCEPT !.pc = "cm_sts", !.m = ext.sts + 1,
                                      !.sts_token = cur.token]]
  /\ UNCHANGED <<now, ticks, tm, app>>

\* the exchange endpoint answers caller c: an error, a response whose
\* Expiration cannot be read (the dict is already cached), or a good response
CmStsReturn(c) ==
  /\ req[c].pc = "cm_sts"
  /\ \E outcome \in {"ok", "bad_expiration", "error"} :
       LET response == StsResponse(req[c].m, now)
           cached == CmInstallCache(cm, response)
           new == CmInstallExpiry(cached, response)
       IN CASE outcome = "error" ->
                 /\ cm' = CmClearCache(CmClearCache(cm))
                 /\ req' = [req EXCEPT ![c] = AfterGetCredentials(req[c], TRUE, NoCreds)]
                 /\ hist' = [hist EXCEPT !.cm = "failed"]
            [] outcome = "bad_expiration" ->
                 /\ cm' = CmClearCache(CmClearCache(cached))
                 /\ req' = [req EXCEPT ![c] = AfterGetCredentials(req[c], TRUE, NoCreds)]
                 /\ hist' = [hist EXCEPT !.cm = "failed"]
            [] outcome = "ok" ->
                 /\ UNCHANGED hist
                 /\ cm' = new
                 /\ req' = [req EXCEPT ![c] =
                              AfterGetCredentials(req[c], FALSE, new.credentials_cache)]
  /\ app' = MainInstances(req[c], req'[c].raised, cm'.credentials_cache)
  /\ UNCHANGED <<now, ticks, tm, ext>>

\* a call of AWSCredentialsManager.clear_cache
CmClearCacheCall ==
  /\ cm # CmClearCache(cm)
  /\ cm' = CmClearCache(cm)
  /\ hist' = [hist EXCEPT !.cm = HistClear(@)]
  /\ UNCHANGED <<now, ticks, tm, ext, req, app>>

(* ----------------------------- /predict ------------------------------- *)
\* main.py predict: validate_request -> get_authorization_headers -> get_token
MainPredict(c) ==
  /\ req[c].pc = "idle"
  /\ \A d \in Callers : req[d].entry \in {"none", "main"}
  /\ \E op \in 1..Len(Operations) : GetTokenBegin(c, NewReq("main", op))
  /\ UNCHANGED <<now, ticks, cm, app>>

\* proxyapp.py predict: prepare_gcp_request, then forward_to_gcp enters
\* 'async with http_client' (RuntimeError unless the client was never opened)
\* and sends the POST, its only header being Content-Type (no get_token call,
\* no Authorization header: bearer stays None)
ProxyPredict(c) ==
  /\ req[c].pc = "idle"
  /\ \A d \in Callers : req[d].entry \in {"none", "proxy"}
  /\ \E op \in 1..Len(Operations) :
       IF app.http_client # "unopened"
       THEN /\ req' = [req EXCEPT ![c] = Raise(NewReq("proxy", op), ProxyPredictExcept(500))]
            /\ UNCHANGED app
       ELSE /\ req' = [req EXCEPT ![c] =
                         [NewReq("proxy", op) EXCEPT !.pc = "gw_post", !.posted = TRUE]]
            /\ app' = [app EXCEPT !.http_client = "opened"]
  /\ UNCHANGED <<now, ticks, tm, cm, ext, hist>>

\* the gateway's answer reaches main.py: validate_request lines 30-49, then
\* predict lines 21-28 (get_client: _determine_service, get_credentials)
MainGatewayReturn(c, outcome) ==
  LET r == [req[c] EXCEPT !.verdict = IF outcome = "http_error" THEN "none" ELSE outcome]
  IN IF outcome = "http_error"
     THEN /\ req' = [req EXCEPT ![c] = Raise(r, MainPredictExcept(ValidateRequestExcept(500)))]
          /\ UNCHANGED <<cm, ext, app, hist>>
     ELSE IF ~IsApproved(outcome)
          THEN /\ req' = [req EXCEPT ![c] =
                            Raise(r, MainPredictExcept(ValidateRequestExcept(403)))]
               /\ UNCHANGED <<cm, ext, app, hist>>
          ELSE GetCredentialsBegin(c, [r EXCEPT !.backend = "lookup"])

\* the gateway's answer reaches proxyapp.py: forward_to_gcp lines 130-142 (the
\* 'async with' block is left, which closes http_client), predict lines 104-111
\* and call_bedrock_service lines 146-155 up to the operation call
ProxyGatewayReturn(c, outcome) ==
  LET r == [req[c] EXCEPT !.verdict = IF outcome = "http_error" THEN "none" ELSE outcome]
      operation == OperationNames[r.op]
      service == DetermineService(operation)
      got == ProxyGetClient(app, operation)
      g == [r EXCEPT !.service = service, !.client = got.instances[service]]
  IN /\ UNCHANGED <<cm, ext, hist>>
     /\ IF outcome = "http_error"
        THEN /\ req' = [req EXCEPT ![c] = Raise(r, ProxyPredictExcept(502))]
             /\ app' = [app EXCEPT !.http_client = "closed"]
        ELSE IF ~IsApproved(outcome)
             THEN /\ req' = [req EXCEPT ![c] = Raise(r, ProxyPredictExcept(403))]
                  /\ app' = [app EXCEPT !.http_client = "closed"]
             ELSE /\ app' = [got EXCEPT !.http_client = "closed"]
                  /\ req' = [req EXCEPT ![c] =
                       IF ToSnakeCase(operation) \notin ClientMethods(service)
                       THEN Raise([g EXCEPT !.backend = "client"], ProxyPredictExcept(400))
                       ELSE [g EXCEPT !.pc = "op_call", !.backend = "called"]]

\* the policy gateway answers the POST of caller c: a verdict (status approved,
\* denied or error), or the POST fails (unreachable, timeout, non-2xx)
GatewayReturn(c) ==
  /\ req[c].pc = "gw_post"
  /\ \E outcome \in {"approved", "denied", "error", "http_error"} :
       IF req[c].entry = "main"
       THEN MainGatewayReturn(c, outcome)
       ELSE ProxyGatewayReturn(c, outcome)
  /\ UNCHANGED <<now, ticks, tm>>

\* the backend operation returns or raises: main.py lines 30-41, proxyapp.py
\* call_bedrock_service lines 158-175
OpReturn(c) ==
  /\ req[c].pc = "op_call"
  /\ \E ok \in BOOLEAN :
       req' = [req EXCEPT ![c] =
                 IF ok THEN Return(req[c], 200)
                 ELSE IF req[c].entry = "main"
                      THEN Raise(req[c], MainPredictExcept(500))
                      ELSE Raise(req[c], ProxyPredictExcept(500))]
  /\ UNCHANGED <<now, ticks, tm, cm, ext, app, hist>>

(* ------------------------ the validity tests alone -------------------- *)
\* a call of GCPTokenManager._is_token_valid
IsTokenValidCall(c) ==
  /\ req[c].pc = "idle"
  /\ req' = [req EXCEPT ![c] =
               [Return(NewReq("_is_token_valid", 0), 0) EXCEPT !.answer = IsTokenValid(tm, now)]]
  /\ UNCHANGED <<now, ticks, tm, cm, ext, app, hist>>

\* a call of AWSCredentialsManager._should_refresh_credentials
ShouldRefreshCredentialsCall(c) ==
  /\ req[c].pc = "idle"
  /\ req' = [req EXCEPT ![c] =
               [Return(NewReq("_should_refresh_credentials", 0), 0)
                  EXCEPT !.answer = ShouldRefreshCredentials(cm, now)]]
  /\ UNCHANGED <<now, ticks, tm, cm, ext, app, hist>>

(* ---------------------------- get_client alone ---------------------- *)
\* the operations get_client is called with (indices of OperationNames):
\* "InvokeModel", "InvalidOp", "InvokeAgentSomething", "AgentList"
ClientOperations == {1, 2, 3, 7}

\* a direct call of proxyapp.py BedrockClientManager.get_client(operation)
ProxyGetClientCall(c) ==
  /\ req[c].pc = "idle"
  /\ \A d \in Callers : req[d].entry \in {"none", "proxy_get_client"}
  /\ \E i \in ClientOperations :
       LET service == DetermineService(OperationNames[i])
           got == ProxyGetClient(app, OperationNames[i])
       IN /\ app' = got
          /\ req' = [req EXCEPT ![c] =
                       [Return(NewReq("proxy_get_client", i), 0) EXCEPT
                          !.service = service, !.client = got.instances[service]]]
  /\ UNCHANGED <<now, ticks, tm, cm, ext, hist>>

\* a direct call of services/bedrock_client.py BedrockClientManager.get_client
MainGetClientCall(c) ==
  /\ req[c].pc = "idle"
  /\ \A d \in Callers : req[d].entry \in {"none", "main_get_client"}
  /\ \E i \in ClientOperations : GetCredentialsBegin(c, NewReq("main_get_client", i))
  /\ UNCHANGED <<now, ticks, tm>>

(* ----------------------- service resolution alone -------------------- *)
\* a direct call of BedrockClientManager._determine_service(operation)
DetermineServiceCall(c) ==
  /\ req[c].pc = "idle"
  /\ \E i \in 1..Len(OperationNames) :
       req' = [req EXCEPT ![c] =
                 [NewReq("_determine_service", i) EXCEPT
                    !.service = DetermineService(OperationNames[i])]]
  /\ UNCHANGED <<now, ticks, tm, cm, ext, app, hist>>

(* ------------------------------- clock -------------------------------- *)
Tick ==
  /\ ticks < MaxTicks
  /\ \E d \in Jumps : now' = now + d
  /\ ticks' = ticks + 1
  /\ UNCHANGED <<tm, cm, ext, req, app, hist>>

(* --------------------------- specification ---------------------------- *)
\* module-level state: proxyapp.py http_client (line 80) and the _instances of
\* the two BedrockClientManager classes with the number of clients each built
AppInit ==
  [http_client |-> "unopened", instances |-> NoClients, built |-> 0,
   main_instances |-> NoClients, main_built |-> 0]

Init ==
  /\ now = 0
  /\ ticks = 0
  /\ tm = GCPTokenManagerInit
  /\ cm = AWSCredentialsManagerInit
  /\ ext = [tm_refresh |-> 0, tm_handles |-> 0, cm_refresh |-> 0, cm_handles |-> 0, sts |-> 0]
  /\ req = [c \in Callers |-> IdleReq]
  /\ app = AppInit
  /\ hist = HistInit

Next ==
  \/ \E c \in Callers : GetToken(c)
  \/ \E c \in Callers : TmRefreshReturn(c)
  \/ TmClearCacheCall
  \/ \E c \in Callers : GetCredentials(c)
  \/ \E c \in Callers : CmRefreshReturn(c)
  \/ \E c \in Callers : CmStsReturn(c)
  \/ CmClearCacheCall
  \/ Tick

Spec == Init /\ [][Next]_vars

\* the two applications serving /predict
NextPredict ==
  \/ \E c \in Callers : MainPredict(c)
  \/ \E c \in Callers : ProxyPredict(c)
  \/ \E c \in Callers : TmRefreshReturn(c)
  \/ \E c \in Callers : GatewayReturn(c)
  \/ \E c \in Callers : CmRefreshReturn(c)
  \/ \E c \in Callers : CmStsReturn(c)
  \/ \E c \in Callers : OpReturn(c)

SpecPredict == Init /\ [][NextPredict]_vars

\* the validity tests on every cache state and time: the fields are Optional,
\* so a token without an expiry and an expiry without a token are inputs too
ValidityTimes ==
  {0, TokenTTL - RefreshBuffer - 1, TokenTTL - RefreshBuffer, TokenTTL - RefreshBuffer + 1,
   TokenTTL, TokenTTL + 1}

InitValidity ==
  /\ now \in ValidityTimes
  /\ ticks = 0
  /\ tm \in [token_cache : {None, EmptyToken, 1},
              token_expiry : {None, TokenTTL, TokenTTL + 1},
              credentials : {NoHandle}]
  /\ cm \in [credentials_cache : {NoCreds, CmInstallCache(AWSCredentialsManagerInit,
                                                           StsResponse(1, 0)).credentials_cache},
              credentials_expiry : {None, SessionDuration, SessionDuration + 1},
              google_credentials : {NoHandle}]
  /\ tm = GCPTokenManagerInit \/ cm = AWSCredentialsManagerInit
  /\ ext = [tm_refresh |-> 0, tm_handles |-> 0, cm_refresh |-> 0, cm_handles |-> 0, sts |-> 0]
  /\ req = [c \in Callers |-> IdleReq]
  /\ app = AppInit
  /\ hist = HistInit

NextValidity ==
  \/ \E c \in Callers : IsTokenValidCall(c)
  \/ \E c \in Callers : ShouldRefreshCredentialsCall(c)

SpecValidity == InitValidity /\ [][NextValidity]_vars

\* direct callers of get_client of the two BedrockClientManager classes
NextClient ==
  \/ \E c \in Callers : ProxyGetClientCall(c)
  \/ \E c \in Callers : MainGetClientCall(c)
  \/ \E c \in Callers : CmRefreshReturn(c)
  \/ \E c \in Callers : CmStsReturn(c)

SpecClient == Init /\ [][NextClient]_vars

\* service resolution on every operation name
NextService == \E c \in Callers : DetermineServiceCall(c)

SpecService == Init /\ [][NextService]_vars

(* ============================== claims ================================ *)

\* C1 (as claimed): single-flight refresh.  Whenever two callers of the same
\* manager both found the cache stale while the other's refresh was in flight and
\* both have returned, exactly one upstream refresh call was made between them
\* and both returned the same value.
C1_SingleFlight ==
  \A c, d \in Callers :
    (/\ c # d
     /\ req[c].entry \in {"get_token", "get_credentials"}
     /\ req[d].entry = req[c].entry
     /\ req[c].pc = "idle" /\ ~req[c].raised
     /\ req[d].pc = "idle" /\ ~req[d].raised
     /\ req[d].n # 0
     /\ req[d].n \in req[c].peers)
    => /\ Cardinality({req[c].n, req[d].n} \ {0}) = 1
       /\ req[c].tok = req[d].tok
       /\ req[c].creds = req[d].creds

\* C2 (as claimed): a /predict request whose gateway verdict is not "approved"
\* ends with HTTP status 403.
C2_DeniedIs403 ==
  \A c \in Callers :
    (/\ req[c].entry \in {"main", "proxy"}
     /\ req[c].pc = "idle"
     /\ req[c].verdict \in {"denied", "error"})
    => req[c].code = 403

\* C3: a request reaches the backend (client lookup, client, operation call)
\* only after the gateway answered "approved" for that request; a request the
\* gateway denied, answered with an error verdict or did not answer never does.
C3_BackendOnlyAfterApproval ==
  \A c \in Callers : req[c].backend # "none" => req[c].verdict = "approved"

C3_Witness ==
  \E c, d \in Callers :
    /\ req[c].entry = "main" /\ req[c].verdict = "approved" /\ req[c].backend = "lookup"
    /\ req[d].entry = "main" /\ req[d].pc = "idle" /\ req[d].verdict = "denied"
    /\ req[d].backend = "none"

\* C4: in the step in which a failed refresh reaches the caller of get_token /
\* get_credentials as an error, the manager's cached value and expiry are both
\* unset.
C4_FailedRefreshEmptiesCache ==
  [][\A c \in Callers :
       (req'[c] # req[c] /\ req'[c].pc = "idle" /\ req'[c].raised)
       => /\ req'[c].entry = "get_token"
               => tm'.token_cache = None /\ tm'.token_expiry = None
          /\ req'[c].entry = "get_credentials"
               => cm'.credentials_cache = NoCreds /\ cm'.credentials_expiry = None]_vars

\* a refresh failed at the exchange after another caller's refresh had
\* installed credentials, and the cache is empty
C4_Witness ==
  \E c, d \in Callers :
    /\ req[c].entry = "get_credentials" /\ req[c].pc = "idle" /\ req[c].raised /\ req[c].m # 0
    /\ req[d].entry = "get_credentials" /\ req[d].pc = "idle" /\ ~req[d].raised
    /\ req[d].m # 0 /\ req[d].m < req[c].m
    /\ cm.credentials_cache = NoCreds /\ cm.credentials_expiry = None

\* the reference validity of section 4.1: a value is cached and
\* now < expiresAt - refreshBuffer
TmCachedValid ==
  /\ Truthy(tm.token_cache)
  /\ tm.token_expiry # None
  /\ now < tm.token_expiry - RefreshBuffer

CmCachedValid ==
  /\ cm.credentials_cache # NoCreds
  /\ cm.credentials_expiry # None
  /\ now < cm.credentials_expiry - RefreshBuffer

\* C5: a get_token / get_credentials call made while the cached entry is valid
\* returns the cached value, makes no upstream call and leaves the cache
\* unchanged.
C5_ValidCallIsCacheHit ==
  [][\A c \in Callers :
       (req[c].pc = "idle" /\ req'[c] # req[c])
       => /\ (req'[c].entry = "get_token" /\ TmCachedValid)
               => /\ tm' = tm /\ ext' = ext
                  /\ req'[c].pc = "idle" /\ ~req'[c].raised
                  /\ req'[c].tok = tm.token_cache
          /\ (req'[c].entry = "get_credentials" /\ CmCachedValid)
               => /\ cm' = cm /\ ext' = ext
                  /\ req'[c].pc = "idle" /\ ~req'[c].raised
                  /\ req'[c].creds = cm.credentials_cache]_vars

\* a call answered from the cache one second before the entry goes stale
C5_Witness ==
  \E c \in Callers :
    /\ req[c].entry = "get_credentials" /\ req[c].pc = "idle" /\ ~req[c].raised
    /\ req[c].n = 0
    /\ req[c].creds = cm.credentials_cache
    /\ CmCachedValid
    /\ now = cm.credentials_expiry - RefreshBuffer - 1

\* C6 (as claimed): once a refresh has succeeded (the expiry is set), the entry
\* is valid at every time before expiresAt - refreshBuffer and stale from then on.
C6_ValidUntilBuffer ==
  /\ tm.token_expiry # None
       => (IsTokenValid(tm, now) <=> now < tm.token_expiry - RefreshBuffer)
  /\ cm.credentials_expiry # None
       => (~ShouldRefreshCredentials(cm, now) <=> now < cm.credentials_expiry - RefreshBuffer)

\* C7: on every cache state and time, _is_token_valid answers "a value is
\* cached and now < expiresAt - refreshBuffer" and _should_refresh_credentials
\* answers its negation.
C7_ValidityMatchesReference ==
  \A c \in Callers :
    /\ req[c].entry = "_is_token_valid" => (req[c].answer <=> TmCachedValid)
    /\ req[c].entry = "_should_refresh_credentials" => (req[c].answer <=> ~CmCachedValid)

\* both tests asked at the boundary now = expiresAt - refreshBuffer
C7_Witness ==
  \E c, d \in Callers :
    /\ req[c].entry = "_is_token_valid" /\ ~req[c].answer
    /\ Truthy(tm.token_cache) /\ tm.token_expiry # None
    /\ now = tm.token_expiry - RefreshBuffer
    /\ req[d].entry = "_should_refresh_credentials" /\ req[d].answer

\* C8 (as claimed): a /predict request the gateway approved whose operation is
\* not a method of the resolved backend client ends with HTTP status 400.
C8_InvalidOperationIs400 ==
  \A c \in Callers :
    (/\ req[c].entry \in {"main", "proxy"}
     /\ req[c].pc = "idle"
     /\ req[c].verdict = "approved"
     /\ req[c].backend = "client")
    => req[c].code = 400

\* a credential set with its three strings present
CompleteCredentials(creds) ==
  /\ {"aws_access_key_id", "aws_secret_access_key", "aws_session_token"} \subseteq DOMAIN creds
  /\ \A k \in {"aws_access_key_id", "aws_secret_access_key", "aws_session_token"} :
       Truthy(creds[k])

\* C9: a finished get_credentials call either raised the auth error
\* (HTTPException 500) or returned a complete credential set.
C9_CompleteOrAuthError ==
  \A c \in Callers :
    (req[c].entry = "get_credentials" /\ req[c].pc = "idle")
    => IF req[c].raised THEN req[c].code = 500 ELSE CompleteCredentials(req[c].creds)

\* a call that returned credentials although the other caller's refresh, in
\* flight when it started, failed
C9_Witness ==
  \E c, d \in Callers :
    /\ req[c].entry = "get_credentials" /\ req[c].pc = "idle" /\ ~req[c].raised
    /\ req[c].m # 0
    /\ req[d].entry = "get_credentials" /\ req[d].pc = "idle" /\ req[d].raised
    /\ req[d].n \in req[c].peers

\* C10 (as claimed): token_cache is non-empty if and only if token_expiry is set.
C10_TokenIffExpiry == Truthy(tm.token_cache) <=> tm.token_expiry # None

\* C11: in every state another caller can observe, the cached credential set
\* holds its three strings exactly when the expiry is set: the dict (lines
\* 74-78) and the expiry (lines 81-84) are written, and clear_cache (lines
\* 102-106) resets both, with no suspension in between.
C11_CacheAndExpiryTogether ==
  /\ cm.credentials_cache # NoCreds <=> cm.credentials_expiry # None
  /\ cm.credentials_cache # NoCreds => CompleteCredentials(cm.credentials_cache)

\* a reader suspended in its own exchange while the other caller's exchange,
\* in flight at the same time, has installed the set and its expiry
C11_Witness ==
  \E c, d \in Callers :
    /\ c # d
    /\ req[c].pc = "cm_sts"
    /\ req[d].entry = "get_credentials" /\ req[d].pc = "idle" /\ ~req[d].raised
    /\ req[d].n \in req[c].peers
    /\ req[d].m # 0
    /\ cm.credentials_cache = req[d].creds
    /\ cm.credentials_expiry # None

\* name starts with prefix (lower-case letters), letter case ignored
HasPrefixIgnoringCase(name, prefix) ==
  /\ Len(name) >= Len(prefix)
  /\ \A i \in 1..Len(prefix) :
       \E k \in 1..Len(LowerCase) :
         LowerCase[k] = prefix[i] /\ name[i] \in {LowerCase[k], UpperCase[k]}

\* the service the prefix rules give a name, first match first
ServiceByPrefix(name) ==
  CASE HasPrefixIgnoringCase(name, <<"i","n","v","o","k","e">>) -> "bedrock-runtime"
    [] HasPrefixIgnoringCase(name, <<"s","t","r","e","a","m">>) -> "bedrock-runtime"
    [] HasPrefixIgnoringCase(name, <<"a","g","e","n","t">>) -> "bedrock-agent"
    [] OTHER -> "bedrock"

\* C12: for every operation name, _determine_service answers the runtime
\* service for a name starting (in any letter case) with "invoke" or "stream",
\* otherwise the agent service for one starting with "agent", otherwise the
\* default service; "InvokeAgentSomething" resolves to the runtime service and
\* not to the agent service.
C12_ServiceByPrefix ==
  \A c \in Callers :
    req[c].entry = "_determine_service"
    => /\ req[c].service = ServiceByPrefix(OperationNames[req[c].op])
       /\ OperationNames[req[c].op] = <<"I","n","v","o","k","e","A","g","e","n","t","S","o","m","e","t","h","i","n","g">>
          => req[c].service = "bedrock-runtime" /\ req[c].service # "bedrock-agent"

\* "InvokeAgentSomething" resolved to the runtime service and "AGENTS" to the
\* agent service
C12_Witness ==
  \E c, d \in Callers :
    /\ req[c].entry = "_determine_service"
    /\ OperationNames[req[c].op] = <<"I","n","v","o","k","e","A","g","e","n","t","S","o","m","e","t","h","i","n","g">>
    /\ req[c].service = "bedrock-runtime"
    /\ req[d].entry = "_determine_service"
    /\ OperationNames[req[d].op] = <<"A","G","E","N","T","S">>
    /\ req[d].service = "bedrock-agent"

\* the next get_token after a failed one builds a new handle and calls the
\* identity provider's refresh on it
TmNextCallReauthenticates ==
  (hist.tm = "failed" /\ hist'.tm = "used")
  => /\ ext'.tm_handles = ext.tm_handles + 1
     /\ ext'.tm_refresh = ext.tm_refresh + 1

\* the same for get_credentials
CmNextCallReauthenticates ==
  (hist.cm = "failed" /\ hist'.cm = "used")
  => /\ ext'.cm_handles = ext.cm_handles + 1
     /\ ext'.cm_refresh = ext.cm_refresh + 1

\* C13 (as claimed): the first get_token / get_credentials call started after a
\* failed refresh returns no cached value: it builds a new federated-identity
\* credential handle and calls the upstream refresh on it.
C13_NextCallReauthenticates ==
  [][TmNextCallReauthenticates /\ CmNextCallReauthenticates]_vars

\* C14: while no refresh of a manager has failed (clear_cache never ran on it),
\* its federated-identity credential handle was built exactly once, on the
\* first miss: every miss since ran its refresh on that same handle, which the
\* manager still holds.
C14_HandleBuiltOnce ==
  /\ hist.tm = "clean"
     => /\ ext.tm_handles = (IF ext.tm_refresh = 0 THEN 0 ELSE 1)
        /\ tm.credentials.id = ext.tm_handles
        /\ \A c \in Callers : req[c].pc = "tm_refresh" => req[c].h = 1
  /\ hist.cm = "clean"
     => /\ ext.cm_handles = (IF ext.cm_refresh = 0 THEN 0 ELSE 1)
        /\ cm.google_credentials.id = ext.cm_handles
        /\ \A c \in Callers : req[c].pc \in {"cm_refresh", "cm_sts"} => req[c].h = 1

\* a second miss, after the first one's credentials went stale, whose refresh
\* ran on the handle the first miss built
C14_Witness ==
  \E c \in Callers :
    /\ hist.cm = "clean"
    /\ req[c].entry = "get_credentials" /\ req[c].pc = "cm_sts"
    /\ req[c].n = 2 /\ req[c].peers = {} /\ req[c].h = 1
    /\ ext.cm_handles = 1
    /\ cm.google_credentials.id = 1

\* the service keys that hold a client in _instances
Stored(instances) == {s \in Services : instances[s] # 0}

C16_PostCarriesToken ==
  \A c \in Callers :
    req[c].posted => (req[c].bearer # None /\ req[c].bearer = req[c].tok)

\* C17 (as claimed): whenever get_credentials hands a credential set to
\* get_client of services/bedrock_client.py, get_client builds and returns a
\* client: the keys it reads are the keys the set was stored under.
C17_ClientBuiltFromCredentials ==
  \A c \in Callers :
    (req[c].entry \in {"main", "main_get_client"} /\ req[c].creds # NoCreds)
    => (req[c].client # 0 /\ ~req[c].raised)

\* C18 (as claimed): a /predict request of proxyapp.py that starts after an
\* earlier forward_to_gcp call has completed (the shared http_client has been
\* through one 'async with' block) still sends its POST to the gateway.
C18_LaterRequestReachesGateway ==
  [][\A c \in Callers :
       (/\ req[c].pc = "idle"
        /\ req'[c] # req[c]
        /\ req'[c].entry = "proxy"
        /\ app.http_client = "closed")
       => req'[c].posted]_vars

\* C19 (as claimed): on every cache miss of AWSCredentialsManager the exchange
\* is called only after that miss's identity refresh returned a token, and with
\* that very token (the token of refresh call n is n); a miss whose refresh
\* failed calls no exchange.
C19_ExchangeUsesOwnRefresh ==
  /\ \A c \in Callers :
       req[c].m # 0 => (req[c].n # 0 /\ req[c].sts_token = req[c].n)
  /\ ext.sts <= ext.cm_refresh

====
